---- MODULE Spec2Model ----
(***************************************************************************)
(* Model of the EMSM "server" plugin (src/plugins/server.py): Server.run   *)
(* walks the selected server builds and, for each, MyServer.update stops   *)
(* the worlds that run the build, updates the build and restarts the       *)
(* worlds (try / except / else / finally).                                 *)
(*                                                                         *)
(* The worlds and the server builds are collaborators: every call to one   *)
(* of them is a step whose outcome (return or exception) is chosen         *)
(* nondeterministically among the outcomes of its contract.  Worlds may    *)
(* also change their online state on their own while an update runs.       *)
(***************************************************************************)
EXTENDS Integers, Sequences, FiniteSets, TLC

\* ------------------------------------------------------------------ bounds
NumWorlds == 4
MaxEnvSteps == 1
MaxPluginOps == 3

\* How many ArgumentParser methods are called in one behaviour.
MaxParserOps == 4

\* ------------------------------------------------------------ collaborators
Worlds == 1 .. NumWorlds
Servers == {"X", "Y"}
\* The world field of a call made on a build: a name that is no world.
NoWorld == NumWorlds + 1

Range(s) == { s[n] : n \in DOMAIN s }

\* The iteration order of app.worlds: the worlds by ascending name.
RECURSIVE WorldOrderUpTo(_)
WorldOrderUpTo(n) == IF n = 0 THEN << >> ELSE Append(WorldOrderUpTo(n - 1), n)
WorldOrder == WorldOrderUpTo(NumWorlds)

\* w.server: the last world runs build "Y", every other world build "X".
ServerOf(w) == IF w = NumWorlds THEN "Y" ELSE "X"

\* app.server.get_selected(): the builds chosen with -s / -S, each once.
Selections == { << >>, <<"X">>, <<"Y">>, <<"X", "Y">> }

\* The argparse namespace of the plugin: --update and --force-update are
\* in one mutually exclusive group.  The command lines explored ask for an
\* update or for an uninstallation, not for both at once.
ArgSets == { a \in [update : BOOLEAN, force_update : BOOLEAN,
                    uninstall : BOOLEAN] :
               /\ ~(a.update /\ a.force_update)
               /\ a.uninstall => (~a.update /\ ~a.force_update) }

\* The arguments of a command line without any option of the plugin.
NoArgs == [update |-> FALSE, force_update |-> FALSE, uninstall |-> FALSE]

VARIABLES
    online,      \* online[w]: w.is_online()
    args,        \* the parsed arguments handed to Server.run
    selected,    \* the sequence returned by app.server.get_selected()
    k,           \* position of Server.run's loop in selected
    pc,          \* position of the control thread
    server,      \* self.server of the MyServer whose update is running
    worlds,      \* the local variable worlds of MyServer.update
    i,           \* position of the running for-loop in worlds
    force_stop,  \* the parameter force_stop of MyServer.update
    log,         \* history: the calls the most recent run of update has made
                 \* on worlds and on the build, with their outcomes
    printed,     \* the result messages the most recent run of update printed
    exc,         \* an exception that is propagating through the finally block
    returned,    \* the values returned by the finished MyServer.update calls
                 \* (history: and whether a step of that run had failed)
    envSteps,    \* number of spontaneous world state changes so far
    snapOnline,  \* history: online as it was when worlds was computed
    caller,      \* who calls MyServer.update: Server.run or another caller
    installed,   \* app.server.get_names(): the builds that are installed
    uninst,      \* history: what the calls of MyServer.uninstall asked,
                 \* called and printed
    sections,    \* app.conf.main(): the names of its sections, in order
    options,     \* options[p]: the option names of the section named p
    dataDirs,    \* the plugins whose data directory exists on disk
    modules,     \* the plugins whose module file exists in plugins/
    pres,        \* history: the most recent BasePlugin call and its result
    pOps,        \* number of BasePlugin calls made so far
    parsers,     \* self._plugin_subparsers: parsers[p] is the identity of
                 \* the parser registered under the name p, NoParser if none
    made,        \* number of parser objects add_parser has created so far
    cached,      \* self._args of the ArgumentParser
    parses,      \* history: number of self._argparser.parse_args() calls
    qres,        \* history: the most recent ArgumentParser call and its result
    qOps         \* number of ArgumentParser calls made so far

\* The state of the server plugin's run.
updateVars == << online, args, selected, k, pc, server, worlds, i, force_stop,
                 log, printed, exc, returned, envSteps, snapOnline, caller,
                 installed, uninst >>

\* The state a BasePlugin works on.
pluginVars == << sections, options, dataDirs, modules, pres, pOps >>

\* The state of the ArgumentParser wrapper.
parserVars == << parsers, made, cached, parses, qres, qOps >>

vars == << updateVars, pluginVars, parserVars >>

\* --------------------------------------------------------------- outcomes
\* world.start(): a running world refuses to start again.
StartOutcomes(w, onl) ==
    IF onl[w] THEN {"WorldIsOnlineError"} ELSE {"ok", "WorldStartFailed"}

\* server.update(reporthook)
UpdateOutcomes == {"ok", "ServerUpdateFailure", "other"}

\* str(error) of a ServerUpdateFailure: the reason of the failure.
Reasons == {"no connection", "bad checksum"}

\* A call and its outcome; info is what the raised error carries besides
\* its type.
CallInfo(op, srv, w, f, res, info) ==
    [op |-> op, srv |-> srv, world |-> w, force |-> f, res |-> res,
     info |-> info]

Call(op, srv, w, f, res) == CallInfo(op, srv, w, f, res, "")

\* A printed message: its kind, the build and the world it names, and the
\* text of the error it formats, if any.
MsgInfo(kind, srv, w, info) ==
    [kind |-> kind, srv |-> srv, world |-> w, info |-> info]

Msg(kind, srv, w) == MsgInfo(kind, srv, w, "")

\* ------------------------------------------------------------ MyServer.update
\* worlds = self.app.worlds.get_by_pred(
\*     lambda w: w.server is self.server and w.is_online())
Snapshot(srv, onl) ==
    SelectSeq(WorldOrder, LAMBDA w : ServerOf(w) = srv /\ onl[w])

Reverse(s) == [n \in 1 .. Len(s) |-> s[Len(s) + 1 - n]]

\* Variant: the finally block walks only the worlds that are offline.
RestartList_OnlyOffline(ws, srv, onl) == SelectSeq(ws, LAMBDA w : ~onl[w])

\* Variant: the finally block walks the worlds backwards.
RestartList_Reversed(ws, srv, onl) == Reverse(ws)

\* Variant: the finally block misses the first world.
RestartList_SkipFirst(ws, srv, onl) == IF ws = << >> THEN ws ELSE Tail(ws)

\* Variant: the finally block queries the online worlds of the build again.
RestartList_Recomputed(ws, srv, onl) == Snapshot(srv, onl)

\* The list the finally block iterates: the local variable worlds.
RestartList(ws, srv, onl) == ws

\* Variant: the update is attempted although a world did not stop.
AfterStopFailed_Downloads == "downloading"

\* Variant: the failure leaves update at once, without the finally block.
AfterStopFailed_Leaves == "raised"

\* Where control goes when world.stop raises WorldStopFailed: the except
\* clause prints, the else clause is skipped, the finally block runs.
AfterStopFailed == "restarting"

\* Variant: the failure leaves update at once, without the finally block.
AfterUpdateFailure_Leaves == "raised"

\* Where control goes when server.update raises ServerUpdateFailure.
AfterUpdateFailure == "restarting"

\* Variant: the message names the build but leaves the error out.
UpdateFailedMsg_NoReason(srv, reason) == Msg("update_failed", srv, NoWorld)

\* print("{} - update: failure: {}".format(self.server.name, error))
UpdateFailedMsg(srv, reason) == MsgInfo("update_failed", srv, NoWorld, reason)

\* Variant: a world found online is reported like a failed restart.
OnWorldIsOnline_Reports(srv, w) == << Msg("restart_failed", srv, w) >>

\* What the handler of WorldIsOnlineError prints: nothing (pass).
OnWorldIsOnline(srv, w) == << >>

\* Variant: the first failed restart ends the loop.
AfterStartFailed_Breaks(idx, ws) == Len(ws) + 1

\* What the handler of WorldStartFailed does with the loop: it continues.
AfterStartFailed(idx, ws) == idx + 1

\* Variant: an exception nobody handles leaves update without the finally
\* block.
AfterUnhandled_Leaves == "raised"

\* Where control goes when a call in the try block raises an exception no
\* except clause names: the finally block runs, then the exception goes on.
AfterUnhandled == "restarting"

\* Variant: the world is stopped first and told afterwards.
StopRound_StopFirst(srv, w, f, res) ==
    << Call("stop", srv, w, f, res), Call("send_command", srv, w, FALSE, "ok") >>

\* The calls of one round of the stop loop in which send_command returns:
\* world.send_command("say ..."), then world.stop(force_stop).
StopRound(srv, w, f, res) ==
    << Call("send_command", srv, w, FALSE, "ok"), Call("stop", srv, w, f, res) >>

\* A stop, the update or a start among the calls failed.
Failed(calls) ==
    \E n \in DOMAIN calls :
        calls[n].res \in {"WorldStopFailed", "ServerUpdateFailure", "WorldStartFailed"}

\* ------------------------------------------------------- MyServer.uninstall
\* The names a user may type when asked for the replacement.
Typed == Servers \cup {"Z"}

\* self.server.uninstall(replacement)
UninstallOutcomes == {"ok", "ServerIsOnlineError"}

\* avlb_server: get_names() without the name of this build.
Available(names, srv) == names \ {srv}

\* Variant: every name the user types is accepted.
ReplacementOk_Any(name, avlb) == TRUE

\* check_func = lambda server: server in avlb_server
ReplacementOk(name, avlb) == name \in avlb

\* What MyServer.uninstall did for the build srv: a question and its
\* answer, the call of uninstall with the replacement and its outcome, or a
\* printed message; names are the builds installed at that moment.
UEvent(kind, srv, other, res, names) ==
    [kind |-> kind, srv |-> srv, other |-> other, res |-> res, names |-> names]

\* Variant: update stops gracefully when the caller says nothing.
DefaultForceStop_Graceful == FALSE

\* def update(self, force_stop=True, stop_message=str())
DefaultForceStop == TRUE

\* return None
UpdateReturnValue == "None"

\* Server.run: args.update -> update(False, msg), args.force_update ->
\* update(True, msg).
ForceOf(a) == IF a.update THEN FALSE ELSE TRUE

\* ------------------------------------------------------------- BasePlugin
\* The loaded plugins, by name, and the option names they use.
Plugins == {"server", "backups"}
Options == {"update_message", "interval"}

\* The attributes __init__ stores on the instance: inside the class body
\* self.__app is the attribute _BasePlugin__app, and so on.
InstanceAttrs ==
    {"_BasePlugin__app", "_BasePlugin__name", "_BasePlugin__argparser"}

\* The attributes every instance finds on the class.
ClassAttrs ==
    {"INIT_PRIORITY", "FINISH_PRIORITY", "VERSION", "DOWNLOAD_URL",
     "DESCRIPTION", "app", "name", "conf", "data_dir", "argparser",
     "uninstall", "run", "finish"}

\* The attributes data_dir reads first:
\* self._app.paths.plugin_data_dir(self._name)
DataDirReads == {"_app", "_name"}

\* The record of a BasePlugin call: the method, the plugin, how it ended
\* (returned or the exception raised), what it returned, how many questions
\* it asked and the answers it got, and the argument create of data_dir.
PluginCall(op, p, result, ret, asked, a1, a2, a3, create) ==
    [op |-> op, plugin |-> p, result |-> result, ret |-> ret,
     asked |-> Len(asked), a1 |-> a1, a2 |-> a2, a3 |-> a3, create |-> create]

NoCall == PluginCall("none", "", "none", "", << >>, FALSE, FALSE, FALSE, FALSE)

\* Variant: the section is added without looking.
NeedsSection_Always(name, secs) == TRUE

\* if not self.__name in main_conf
NeedsSection(name, secs) == \A n \in DOMAIN secs : secs[n] # name

\* conf(): main_conf with the section of the plugin in it.
WithSection(name, secs) ==
    IF NeedsSection(name, secs) THEN Append(secs, name) ELSE secs

\* main_conf.remove_section(name)
RemoveSection(name, secs) == SelectSeq(secs, LAMBDA s : s # name)

\* plugin_data_dir(name): one directory per plugin name.
PluginDataDir(name) == name

\* data_dir(create) on the directories dirs: how the call ends, the path it
\* returns and the directories afterwards.
DataDirCall(name, create, dirs) ==
    IF ~(DataDirReads \subseteq (InstanceAttrs \cup ClassAttrs))
    THEN [result |-> "AttributeError", ret |-> "", dirs |-> dirs]
    ELSE [result |-> "returned", ret |-> PluginDataDir(name),
          dirs |-> IF PluginDataDir(name) \notin dirs /\ create
                   THEN dirs \cup {PluginDataDir(name)}
                   ELSE dirs]

\* What uninstall hands to plugins.get_module: self.name, which is the
\* method name, not the string it returns.
ModuleKey(name) == "<bound method BasePlugin.name>"

\* plugins.get_module(key): the module loaded under that name, if any.
GetModule(key, mods) == IF key \in mods THEN {key} ELSE {}

\* Variant: the uninstallation goes on whatever the first answer was.
Proceeds_Always(answer) == TRUE

\* if not userinput.ask("Do you really want to remove this plugin?"): raise
Proceeds(answer) == answer

\* ------------------------------------------------- ArgumentParser wrapper
\* No parser is registered under a name / self._args = None.
NoParser == 0
NoNamespace == [id |-> 0, line |-> ""]

\* The command lines parse_args may find in sys.argv; the last one names no
\* plugin that has a parser and makes parse_args exit.
ValidLines == {"server --update", "backups --list"}
CommandLines == ValidLines \cup {"bogus"}

\* self._argparser.parse_args(): a new namespace object holding what the
\* command line says, or SystemExit through parser.error().
ParseArgs(line, n) ==
    IF line \in ValidLines
    THEN [result |-> "returned", ns |-> [id |-> n, line |-> line]]
    ELSE [result |-> "SystemExit", ns |-> NoNamespace]

\* Variant: the cache parameter is not looked at.
MustParse_IgnoresCache(cur, cache) == cur = NoNamespace

\* if self._args is None or not cache:
MustParse(cur, cache) == cur = NoNamespace \/ ~cache

\* self._plugin_subparsers.add_parser(plugin_name) is called whether or not
\* the name has a parser.  For a new name it creates and registers a parser.
\* For a registered name the interpreter's argparse either creates another
\* parser and registers it in place of the first one, or (Python 3.11 and
\* later) raises ArgumentError "conflicting subparser".
AddParserOutcomes(name, map) ==
    IF map[name] = NoParser THEN {"created"} ELSE {"replaced", "ArgumentError"}

\* The record kept of an ArgumentParser call.
ParserCall(op, name, cache, result, ret, parsed) ==
    [op |-> op, name |-> name, cache |-> cache, result |-> result,
     ret |-> ret, parsed |-> parsed]

NoParserCall == ParserCall("none", "", FALSE, "none", NoParser, FALSE)

\* ArgumentParser.__init__: no plugin parser yet, self._args = None.
ParserFresh ==
    /\ parsers = [p \in Plugins |-> NoParser]
    /\ made = 0
    /\ cached = NoNamespace
    /\ parses = 0
    /\ qres = NoParserCall
    /\ qOps = 0

Init ==
    /\ online \in [Worlds -> BOOLEAN]
    /\ ParserFresh
    /\ \/ \* Server.run is called with the parsed arguments.
          /\ caller = "run"
          /\ args \in ArgSets
          /\ selected \in Selections
          /\ pc = "run"
       \/ \* Some other caller is about to call MyServer.update().
          /\ caller = "direct"
          /\ args = NoArgs
          /\ selected = << >>
          /\ pc = "direct"
    /\ \* The selected builds are installed; which other builds are matters
       \* to an uninstallation only.
       IF args.uninstall
       THEN installed \in { s \in SUBSET Servers : Range(selected) \subseteq s }
       ELSE installed = Servers
    /\ uninst = << >>
    /\ k = 1
    /\ server = "X"
    /\ worlds = << >>
    /\ i = 1
    /\ force_stop = FALSE
    /\ log = << >>
    /\ printed = << >>
    /\ exc = "none"
    /\ returned = << >>
    /\ envSteps = 0
    /\ snapOnline = [w \in Worlds |-> FALSE]
    /\ sections = << >>
    /\ options = [p \in Plugins |-> {}]
    /\ dataDirs = {}
    /\ modules = Plugins
    /\ pres = NoCall
    /\ pOps = 0

\* Server.run, loop exhausted: return None.
RunExit ==
    /\ pc = "run"
    /\ k > Len(selected)
    /\ pc' = "exit"
    /\ UNCHANGED << online, args, selected, k, server, worlds, i, force_stop,
                    log, printed, exc, returned, envSteps,
                    snapOnline >>
    /\ UNCHANGED << caller, installed, uninst, pluginVars, parserVars >>

\* Server.run, one build without --update and without --force-update: on
\* to "if args.uninstall", or to the next build.
RunSkip ==
    /\ pc = "run"
    /\ k <= Len(selected)
    /\ ~args.update /\ ~args.force_update
    /\ IF args.uninstall
       THEN pc' = "uninstall" /\ k' = k
       ELSE pc' = pc /\ k' = k + 1
    /\ UNCHANGED << online, args, selected, server, worlds, i, force_stop,
                    log, printed, exc, returned, envSteps,
                    snapOnline >>
    /\ UNCHANGED << caller, installed, uninst, pluginVars, parserVars >>

\* Server.run calls s.update(...); update takes the snapshot of the worlds.
UpdateBegin ==
    /\ pc = "run"
    /\ k <= Len(selected)
    /\ args.update \/ args.force_update
    /\ server' = selected[k]
    /\ force_stop' = ForceOf(args)
    /\ worlds' = Snapshot(selected[k], online)
    /\ i' = 1
    /\ pc' = "stopping"
    /\ log' = << >>
    /\ printed' = << >>
    /\ snapOnline' = online
    /\ UNCHANGED << online, args, selected, k, exc, returned, envSteps >>
    /\ UNCHANGED << caller, installed, uninst, pluginVars, parserVars >>

\* A caller other than Server.run calls MyServer(app, s).update() and
\* leaves the parameters to their defaults.
UpdateDirect ==
    /\ pc = "direct"
    /\ \E s \in Servers :
          /\ server' = s
          /\ worlds' = Snapshot(s, online)
    /\ force_stop' = DefaultForceStop
    /\ i' = 1
    /\ pc' = "stopping"
    /\ log' = << >>
    /\ printed' = << >>
    /\ snapOnline' = online
    /\ UNCHANGED << online, args, selected, k, exc, returned, envSteps >>
    /\ UNCHANGED << caller, installed, uninst, pluginVars, parserVars >>

\* One round of the stop loop: send_command, then stop.
StopStep ==
    /\ pc = "stopping"
    /\ i <= Len(worlds)
    /\ LET w == worlds[i]
           sent(r) == Call("send_command", server, w, FALSE, r)
       IN  \/ \* send_command raises something
              /\ log' = Append(log, sent("other"))
              /\ exc' = "other"
              /\ pc' = AfterUnhandled
              /\ i' = 1
              /\ UNCHANGED << online, printed >>
           \/ \* stop returns
              /\ log' = log \o StopRound(server, w, force_stop, "ok")
              /\ online' = [online EXCEPT ![w] = FALSE]
              /\ i' = i + 1
              /\ UNCHANGED << pc, exc, printed >>
           \/ \* stop raises WorldStopFailed
              /\ log' = log \o StopRound(server, w, force_stop, "WorldStopFailed")
              /\ printed' = Append(printed, Msg("stop_failed", server, w))
              /\ pc' = AfterStopFailed
              /\ i' = 1
              /\ UNCHANGED << online, exc >>
           \/ \* stop raises something else
              /\ log' = log \o StopRound(server, w, force_stop, "other")
              /\ exc' = "other"
              /\ pc' = AfterUnhandled
              /\ i' = 1
              /\ UNCHANGED << online, printed >>
    /\ UNCHANGED << args, selected, k, server, worlds, force_stop, returned,
                    envSteps,
                    snapOnline >>
    /\ UNCHANGED << caller, installed, uninst, pluginVars, parserVars >>

\* The stop loop ends without an exception: the else clause is entered.
StopDone ==
    /\ pc = "stopping"
    /\ i > Len(worlds)
    /\ pc' = "downloading"
    /\ UNCHANGED << online, args, selected, k, server, worlds, i, force_stop,
                    log, printed, exc, returned, envSteps,
                    snapOnline >>
    /\ UNCHANGED << caller, installed, uninst, pluginVars, parserVars >>

\* The else clause: self.server.update(reporthook).
DownloadStep ==
    /\ pc = "downloading"
    /\ \E r \in UpdateOutcomes :
          \/ /\ r = "ok"
             /\ log' = Append(log, Call("update", server, NoWorld, FALSE, r))
             /\ printed' = Append(printed, Msg("download_complete", server, NoWorld))
             /\ pc' = "restarting"
             /\ UNCHANGED exc
          \/ /\ r = "ServerUpdateFailure"
             /\ \E reason \in Reasons :
                   /\ log' = Append(log, CallInfo("update", server, NoWorld,
                                                  FALSE, r, reason))
                   /\ printed' = Append(printed, UpdateFailedMsg(server, reason))
             /\ pc' = AfterUpdateFailure
             /\ UNCHANGED exc
          \/ /\ r = "other"
             /\ log' = Append(log, Call("update", server, NoWorld, FALSE, r))
             /\ exc' = "other"
             /\ pc' = AfterUnhandled
             /\ UNCHANGED printed
    /\ i' = 1
    /\ UNCHANGED << online, args, selected, k, server, worlds, force_stop,
                    returned, envSteps,
                    snapOnline >>
    /\ UNCHANGED << caller, installed, uninst, pluginVars, parserVars >>

\* One round of the loop of the finally block: world.start().
StartStep ==
    /\ pc = "restarting"
    /\ LET ws == RestartList(worlds, server, online)
       IN  /\ i <= Len(ws)
           /\ \E r \in StartOutcomes(ws[i], online) :
                 /\ log' = Append(log, Call("start", server, ws[i], FALSE, r))
                 /\ \/ /\ r = "WorldIsOnlineError"
                       /\ printed' = printed \o OnWorldIsOnline(server, ws[i])
                       /\ i' = i + 1
                       /\ UNCHANGED online
                    \/ /\ r = "WorldStartFailed"
                       /\ printed' = Append(printed, Msg("restart_failed", server, ws[i]))
                       /\ i' = AfterStartFailed(i, ws)
                       /\ UNCHANGED online
                    \/ /\ r = "ok"
                       /\ printed' = Append(printed, Msg("restarted", server, ws[i]))
                       /\ online' = [online EXCEPT ![ws[i]] = TRUE]
                       /\ i' = i + 1
    /\ UNCHANGED << args, selected, k, pc, server, worlds, force_stop, exc,
                    returned, envSteps,
                    snapOnline >>
    /\ UNCHANGED << caller, installed, uninst, pluginVars, parserVars >>

\* Variant: Server.run gives up the remaining builds after a run that had
\* a failure.
NextBuild_StopsOnFailure(idx, failed, sel) ==
    IF failed THEN Len(sel) + 1 ELSE idx + 1

\* for s in server: the loop of Server.run goes on with the next selected
\* build whatever the run of this one printed.
NextBuild(idx, failed, sel) == idx + 1

\* The finally block is done and no exception is pending: return None, and
\* Server.run goes on with the next build.
UpdateReturn ==
    /\ pc = "restarting"
    /\ i > Len(RestartList(worlds, server, online))
    /\ exc = "none"
    /\ returned' = Append(returned, [srv |-> server,
                                     value |-> UpdateReturnValue,
                                     failed |-> Failed(log)])
    /\ IF caller = "direct"
       THEN pc' = "exit" /\ k' = k
       ELSE IF args.uninstall
            THEN pc' = "uninstall" /\ k' = k
            ELSE pc' = "run" /\ k' = NextBuild(k, Failed(log), selected)
    /\ UNCHANGED << online, args, selected, server, worlds, i, force_stop,
                    log, printed, exc, envSteps,
                    snapOnline >>
    /\ UNCHANGED << caller, installed, uninst, pluginVars, parserVars >>

\* The finally block is done and an exception is pending: it leaves update
\* and, uncaught, Server.run.
UpdateRaise ==
    /\ pc = "restarting"
    /\ i > Len(RestartList(worlds, server, online))
    /\ exc # "none"
    /\ pc' = "raised"
    /\ UNCHANGED << online, args, selected, k, server, worlds, i, force_stop,
                    log, printed, exc, returned, envSteps,
                    snapOnline >>
    /\ UNCHANGED << caller, installed, uninst, pluginVars, parserVars >>

\* Server.run, "if args.uninstall: s.uninstall()": MyServer.uninstall for
\* the build selected[k], the user answering the question and naming the
\* replacement, then on to the next build.
RunUninstall ==
    /\ pc = "uninstall"
    /\ LET s == selected[k]
           avlb == Available(installed, s)
           ev(kind, other, res) == UEvent(kind, s, other, res, installed)
       IN  \/ \* no other build: print the failure, return
              /\ avlb = {}
              /\ uninst' = Append(uninst, ev("print_no_other", "", ""))
              /\ UNCHANGED installed
           \/ \* the user declines: return
              /\ avlb # {}
              /\ uninst' = Append(uninst, ev("ask", "", "no"))
              /\ UNCHANGED installed
           \/ \* the user confirms and names a replacement that get_value
              \* accepts; self.server.uninstall(replacement)
              /\ avlb # {}
              /\ \E name \in Typed, r \in UninstallOutcomes :
                    /\ ReplacementOk(name, avlb)
                    /\ uninst' = uninst \o
                          << ev("ask", "", "yes"), ev("uninstall", name, r) >> \o
                          (IF r = "ServerIsOnlineError"
                           THEN << ev("print_online", "", "") >>
                           ELSE << >>)
                    /\ installed' = IF r = "ok" THEN installed \ {s}
                                                ELSE installed
    /\ pc' = "run"
    /\ k' = k + 1
    /\ UNCHANGED << online, args, selected, server, worlds, i, force_stop,
                    log, printed, exc, returned, envSteps, snapOnline,
                    caller >>
    /\ UNCHANGED << pluginVars, parserVars >>

\* A world goes offline or comes online on its own while an update runs.
InUpdate == pc \in {"stopping", "downloading", "restarting"}

EnvToggle ==
    /\ InUpdate
    /\ envSteps < MaxEnvSteps
    /\ \E w \in Worlds : online' = [online EXCEPT ![w] = ~online[w]]
    /\ envSteps' = envSteps + 1
    /\ UNCHANGED << args, selected, k, pc, server, worlds, i, force_stop,
                    log, printed, exc, returned,
                    snapOnline >>
    /\ UNCHANGED << caller, installed, uninst, pluginVars, parserVars >>

Next ==
    \/ RunExit
    \/ RunSkip
    \/ UpdateBegin
    \/ UpdateDirect
    \/ StopStep
    \/ StopDone
    \/ DownloadStep
    \/ StartStep
    \/ UpdateReturn
    \/ UpdateRaise
    \/ RunUninstall
    \/ EnvToggle

Spec == Init /\ [][Next]_vars

\* The control thread keeps running: every enabled step of it is taken.
Control ==
    \/ RunExit
    \/ RunSkip
    \/ UpdateBegin
    \/ UpdateDirect
    \/ StopStep
    \/ StopDone
    \/ DownloadStep
    \/ StartStep
    \/ UpdateReturn
    \/ UpdateRaise
    \/ RunUninstall

FairSpec == Spec /\ WF_vars(Control)

\* ------------------------------------------------------------- vocabulary
\* The calls of the most recent run of MyServer.update (the one on server):
\* update empties log and printed when it begins.
CurLog == log

\* The messages of the most recent run.
CurPrinted == printed

\* No run of MyServer.update is in progress: the most recent one, if any,
\* has returned or raised.
Finished == pc \in {"run", "uninstall", "exit", "raised"}

WorldsOf(calls) == [n \in DOMAIN calls |-> calls[n].world]

IsPrefix(a, b) ==
    /\ Len(a) <= Len(b)
    /\ \A n \in 1 .. Len(a) : a[n] = b[n]

StopCalls == SelectSeq(CurLog, LAMBDA c : c.op = "stop")
StartCalls == SelectSeq(CurLog, LAMBDA c : c.op = "start")

Has(op, res) == \E n \in DOMAIN CurLog : CurLog[n].op = op /\ CurLog[n].res = res

\* start was called on world w in the most recent run, after position n.
StartedAfter(w, n) ==
    \E b \in DOMAIN CurLog :
        b > n /\ CurLog[b].op = "start" /\ CurLog[b].world = w

\* ------------------------------------------------------------------ claims
\* C1: in a run of MyServer.update in which a stop call raised
\* WorldStopFailed, the update operation of the build is never invoked.
C1_NoUpdateAfterStopFailed ==
    \A a \in DOMAIN log :
        (log[a].op = "stop" /\ log[a].res = "WorldStopFailed")
            => \A b \in DOMAIN log :
                   ~(log[b].op = "update" /\ log[b].srv = log[a].srv)

\* C1 witness: a finished run over three worlds whose second stop failed.
C1_Witness ==
    /\ Finished
    /\ Len(worlds) = 3
    /\ \E a \in DOMAIN CurLog :
          /\ CurLog[a].op = "stop"
          /\ CurLog[a].res = "WorldStopFailed"
          /\ CurLog[a].world = worlds[2]

\* C2: when a world failed to stop, every world whose stop returned before
\* that failure has received a start call by the time the run has ended.
C2_StoppedWorldsRestarted ==
    Finished =>
        \A a, f \in DOMAIN CurLog :
            (/\ a < f
             /\ CurLog[a].op = "stop" /\ CurLog[a].res = "ok"
             /\ CurLog[f].op = "stop" /\ CurLog[f].res = "WorldStopFailed")
                => StartedAfter(CurLog[a].world, f)

\* C2 witness: a finished run in which two worlds stopped, the third did
\* not, and the two were started again.
C2_Witness ==
    /\ Finished
    /\ Len(worlds) = 3
    /\ Len(StopCalls) = 3
    /\ StopCalls[1].res = "ok" /\ StopCalls[2].res = "ok"
    /\ StopCalls[3].res = "WorldStopFailed"
    /\ \E b \in DOMAIN StartCalls :
          StartCalls[b].world = worlds[1] /\ StartCalls[b].res = "ok"

\* C3: when every world of the snapshot stopped and the update raised
\* ServerUpdateFailure, start has been called on every world of the snapshot
\* (after the update) by the time the run has ended.
C3_RestartAfterUpdateFailure ==
    (Finished /\ Has("update", "ServerUpdateFailure")) =>
        /\ \A n \in DOMAIN worlds :
              \E a \in DOMAIN StopCalls :
                  StopCalls[a].world = worlds[n] /\ StopCalls[a].res = "ok"
        /\ \A n \in DOMAIN worlds :
              \E u \in DOMAIN CurLog :
                  CurLog[u].op = "update" /\ StartedAfter(worlds[n], u)

\* C3 witness: a finished run over three worlds whose update failed.
C3_Witness ==
    /\ Finished
    /\ Len(worlds) = 3
    /\ Has("update", "ServerUpdateFailure")
    /\ Len(StartCalls) = 3

\* C4 as stated: when the stop loop was left by WorldStopFailed, start is
\* called only on worlds that this run has stopped.
C4_OnlyStoppedWorldsStarted ==
    \A b \in DOMAIN log :
        (/\ log[b].op = "start"
         /\ ~ \E n \in DOMAIN log : log[n].srv = log[b].srv /\ log[n].res = "other")
            => \E a \in DOMAIN log :
                   /\ a < b
                   /\ log[a].op = "stop" /\ log[a].res = "ok"
                   /\ log[a].srv = log[b].srv /\ log[a].world = log[b].world

\* C4 amended: start is called only on worlds of the snapshot, and on every
\* one of them: the world whose stop raised WorldStopFailed and the worlds
\* on which stop was never attempted receive a start call too.
C4_EverySnapshotWorldStarted ==
    /\ Range(WorldsOf(StartCalls)) \subseteq Range(worlds)
    /\ Finished =>
          \A n \in DOMAIN worlds :
              (~ \E a \in DOMAIN StopCalls :
                    StopCalls[a].world = worlds[n] /\ StopCalls[a].res = "ok")
                  => StartedAfter(worlds[n], 0)

\* C4 witness: a finished run in which the second of three worlds failed
\* to stop; that world and the third, never attempted, were both started.
C4_Witness ==
    /\ Finished
    /\ Len(worlds) = 3
    /\ Len(StopCalls) = 2
    /\ StopCalls[2].res = "WorldStopFailed"
    /\ StartedAfter(worlds[2], 0)
    /\ StartedAfter(worlds[3], 0)

\* The phase of a call: stopping (1), downloading (2), restarting (3).
PhaseRank(op) ==
    CASE op \in {"send_command", "stop"} -> 1
      [] op = "update" -> 2
      [] op = "start" -> 3

\* C5: within one run every stop precedes the update and the update precedes
\* every start; stops and starts are both issued in snapshot order.
C5_PhaseOrder ==
    /\ \A a, b \in DOMAIN CurLog :
          a < b => PhaseRank(CurLog[a].op) <= PhaseRank(CurLog[b].op)
    /\ Cardinality({n \in DOMAIN CurLog : CurLog[n].op = "update"}) <= 1
    /\ IsPrefix(WorldsOf(StopCalls), worlds)
    /\ IsPrefix(WorldsOf(StartCalls), worlds)

\* C5 witness: stop(1), stop(2), stop(3) with force, update, start(1),
\* start(2), start(3).
C5_Witness ==
    /\ Finished
    /\ server = "X"
    /\ WorldsOf(StopCalls) = << 1, 2, 3 >>
    /\ \A n \in DOMAIN StopCalls : StopCalls[n].force /\ StopCalls[n].res = "ok"
    /\ Has("update", "ok")
    /\ WorldsOf(StartCalls) = << 1, 2, 3 >>

\* The outcome of the restart phase for every world of the snapshot, once
\* the run has ended: exactly one start call, which either returned (and
\* the restart was printed), found the world online, or failed (and the
\* failure was printed).
C6_Outcomes ==
    Finished =>
        \A n \in DOMAIN worlds :
            LET mine == {b \in DOMAIN StartCalls : StartCalls[b].world = worlds[n]}
            IN  /\ Cardinality(mine) = 1
                /\ \A b \in mine :
                      \/ /\ StartCalls[b].res = "ok"
                         /\ Msg("restarted", server, worlds[n]) \in Range(CurPrinted)
                         /\ Msg("restart_failed", server, worlds[n]) \notin Range(CurPrinted)
                      \/ /\ StartCalls[b].res = "WorldIsOnlineError"
                         /\ Msg("restarted", server, worlds[n]) \notin Range(CurPrinted)
                         /\ Msg("restart_failed", server, worlds[n]) \notin Range(CurPrinted)
                      \/ /\ StartCalls[b].res = "WorldStartFailed"
                         /\ Msg("restart_failed", server, worlds[n]) \in Range(CurPrinted)
                         /\ Msg("restarted", server, worlds[n]) \notin Range(CurPrinted)

\* C6: every run of MyServer.update terminates, and when it has, every world
\* of the snapshot has had its start attempt and ended restarted, found
\* online or reported as failed to restart.
C6_TerminatesWithOutcomes ==
    /\ [] C6_Outcomes
    /\ (pc \in {"stopping", "downloading", "restarting"}) ~> Finished

\* C6 witness: a finished run whose three worlds ended in the three
\* different outcomes.
C6_Witness ==
    /\ Finished
    /\ Len(worlds) = 3
    /\ Len(StartCalls) = 3
    /\ {StartCalls[b].res : b \in DOMAIN StartCalls}
          = {"ok", "WorldIsOnlineError", "WorldStartFailed"}

\* The worlds that follow world w in the snapshot.
After(w) == { worlds[n] : n \in { m \in DOMAIN worlds :
                                    \E q \in DOMAIN worlds : q < m /\ worlds[q] = w } }

\* C7: a WorldStartFailed is reported for the world that raised it, and
\* start is still called on every world that follows it in the snapshot.
C7_StartFailureIsLocal ==
    \A b \in DOMAIN StartCalls :
        StartCalls[b].res = "WorldStartFailed" =>
            /\ Msg("restart_failed", server, StartCalls[b].world) \in Range(CurPrinted)
            /\ Finished => \A w \in After(StartCalls[b].world) : StartedAfter(w, 0)

\* C7 witness: the first of three worlds failed to start, the second was
\* started, and the third had its start call as well.
C7_Witness ==
    /\ Finished
    /\ Len(worlds) = 3
    /\ Len(StartCalls) = 3
    /\ StartCalls[1].res = "WorldStartFailed"
    /\ StartCalls[2].res = "ok"

\* C8: a start that finds the world online (WorldIsOnlineError) is not
\* reported as a failure, leaves no exception for the caller (only a call
\* other than start can do that), and the loop goes on to the worlds that
\* follow.
C8_OnlineIsSuccess ==
    /\ \A b \in DOMAIN StartCalls :
          StartCalls[b].res = "WorldIsOnlineError" =>
              /\ Msg("restart_failed", server, StartCalls[b].world)
                     \notin Range(CurPrinted)
              /\ Finished => \A w \in After(StartCalls[b].world) : StartedAfter(w, 0)
    /\ (exc # "none" \/ pc = "raised") =>
          \E n \in DOMAIN CurLog : CurLog[n].op # "start" /\ CurLog[n].res = "other"

\* C8 witness: a run that ended normally, in which the first world was
\* found online and the second was started after it.
C8_Witness ==
    /\ pc \in {"run", "exit"}
    /\ Len(StartCalls) >= 2
    /\ StartCalls[1].res = "WorldIsOnlineError"
    /\ StartCalls[2].res = "ok"

\* C9: worlds is the list of the worlds that ran the build and were online
\* when the run began; the stop loop and the restart loop both walk that
\* list, whatever the worlds have done on their own since.
C9_SnapshotIsFixed ==
    /\ worlds = SelectSeq(WorldOrder,
                          LAMBDA w : ServerOf(w) = server /\ snapOnline[w])
    /\ IsPrefix(WorldsOf(StopCalls), worlds)
    /\ IsPrefix(WorldsOf(StartCalls), worlds)
    /\ Finished => WorldsOf(StartCalls) = worlds
    /\ (Finished /\ Has("update", "ok")) => WorldsOf(StopCalls) = worlds

\* C9 witness: a finished run over at least two worlds during which another
\* world of the build came online by itself and was not started.
C9_Witness ==
    /\ Finished
    /\ Len(worlds) >= 2
    /\ Len(StartCalls) = Len(worlds)
    /\ \E w \in Worlds :
          /\ ServerOf(w) = server
          /\ ~snapOnline[w]
          /\ online[w]

\* A stop, the update or a start of the most recent run failed.
RunFailed ==
    \E n \in DOMAIN CurLog :
        CurLog[n].res \in {"WorldStopFailed", "ServerUpdateFailure", "WorldStartFailed"}

\* A returned value that tells the caller of a failure.
IsFailureStatus(v) == v # "None"

\* C10: the value MyServer.update returns is a failure status exactly when
\* a stop, the update or a start of that run failed.
C10_ReturnReflectsFailures ==
    (pc \in {"run", "exit"} /\ returned # << >>) =>
        /\ returned[Len(returned)].srv = server
        /\ IsFailureStatus(returned[Len(returned)].value) <=> RunFailed

\* C11: every WorldStopFailed, ServerUpdateFailure and WorldStartFailed of a
\* run is printed, naming the world that did not stop, the build together
\* with the reason of the failure, and the world that did not restart; and
\* no failure is printed that did not happen.
C11_FailuresAreReported ==
    /\ \A n \in DOMAIN CurLog :
          LET c == CurLog[n]
          IN  /\ c.res = "WorldStopFailed" =>
                    Msg("stop_failed", c.srv, c.world) \in Range(CurPrinted)
              /\ c.res = "ServerUpdateFailure" =>
                    MsgInfo("update_failed", c.srv, NoWorld, c.info)
                        \in Range(CurPrinted)
              /\ c.res = "WorldStartFailed" =>
                    Msg("restart_failed", c.srv, c.world) \in Range(CurPrinted)
    /\ \A n \in DOMAIN CurPrinted :
          LET m == CurPrinted[n]
          IN  /\ m.kind = "stop_failed" =>
                    \E a \in DOMAIN CurLog :
                        /\ CurLog[a].op = "stop"
                        /\ CurLog[a].res = "WorldStopFailed"
                        /\ CurLog[a].world = m.world /\ CurLog[a].srv = m.srv
              /\ m.kind = "update_failed" =>
                    \E a \in DOMAIN CurLog :
                        /\ CurLog[a].op = "update"
                        /\ CurLog[a].res = "ServerUpdateFailure"
                        /\ CurLog[a].info = m.info /\ CurLog[a].srv = m.srv
              /\ m.kind = "restart_failed" =>
                    \E a \in DOMAIN CurLog :
                        /\ CurLog[a].op = "start"
                        /\ CurLog[a].res = "WorldStartFailed"
                        /\ CurLog[a].world = m.world /\ CurLog[a].srv = m.srv

\* C11 witness: a finished run whose update failed for a bad checksum and
\* whose second world did not restart; both were printed.
C11_Witness ==
    /\ Finished
    /\ Len(worlds) >= 2
    /\ MsgInfo("update_failed", server, NoWorld, "bad checksum") \in Range(CurPrinted)
    /\ Msg("restart_failed", server, worlds[2]) \in Range(CurPrinted)

\* The state in which BasePlugin methods are called: no update is running,
\* the configuration holds any sections, any data directories and plugin
\* modules exist.
PluginInit ==
    /\ online = [w \in Worlds |-> FALSE]
    /\ args = NoArgs
    /\ selected = << >>
    /\ k = 1
    /\ pc = "plugin"
    /\ server = "X"
    /\ worlds = << >>
    /\ i = 1
    /\ force_stop = FALSE
    /\ log = << >>
    /\ printed = << >>
    /\ exc = "none"
    /\ returned = << >>
    /\ envSteps = 0
    /\ snapOnline = [w \in Worlds |-> FALSE]
    /\ caller = "run"
    /\ installed = Servers
    /\ uninst = << >>
    /\ sections \in { << >>, <<"server">>, <<"backups">>,
                      <<"server", "backups">>, <<"backups", "server">> }
    /\ options = [p \in Plugins |-> {}]
    /\ dataDirs \in SUBSET Plugins
    /\ modules \in SUBSET Plugins
    /\ pres = NoCall
    /\ pOps = 0
    /\ ParserFresh

\* BasePlugin.conf()
Conf(p) ==
    /\ pc = "plugin"
    /\ pOps < MaxPluginOps
    /\ sections' = WithSection(p, sections)
    /\ pres' = PluginCall("conf", p, "returned", p, << >>, FALSE, FALSE, FALSE, FALSE)
    /\ pOps' = pOps + 1
    /\ UNCHANGED << options, dataDirs, modules >>
    /\ UNCHANGED << updateVars, parserVars >>

\* A plugin stores an option in its section: self.conf()[o] = value.
ConfSet(p, o) ==
    /\ pc = "plugin"
    /\ pOps < MaxPluginOps
    /\ sections' = WithSection(p, sections)
    /\ options' = [options EXCEPT ![p] = @ \cup {o}]
    /\ pres' = PluginCall("conf_set", p, "returned", p, << >>, FALSE, FALSE, FALSE, FALSE)
    /\ pOps' = pOps + 1
    /\ UNCHANGED << dataDirs, modules >>
    /\ UNCHANGED << updateVars, parserVars >>

\* BasePlugin.data_dir(create)
DataDir(p, create) ==
    /\ pc = "plugin"
    /\ pOps < MaxPluginOps
    /\ LET r == DataDirCall(p, create, dataDirs)
       IN  /\ dataDirs' = r.dirs
           /\ pres' = PluginCall("data_dir", p, r.result, r.ret, << >>,
                                 FALSE, FALSE, FALSE, create)
    /\ pOps' = pOps + 1
    /\ UNCHANGED << sections, options, modules >>
    /\ UNCHANGED << updateVars, parserVars >>

\* BasePlugin.uninstall(), the user answering a1, a2 and a3 to the
\* questions that are asked.
Uninstall(p) ==
    /\ pc = "plugin"
    /\ pOps < MaxPluginOps
    /\ \E a1, a2, a3 \in BOOLEAN :
          IF ~Proceeds(a1)
          THEN \* raise KeyboardInterrupt
               /\ ~a2 /\ ~a3
               /\ pres' = PluginCall("uninstall", p, "KeyboardInterrupt", "",
                                     << a1 >>, a1, FALSE, FALSE, FALSE)
               /\ UNCHANGED << sections, options, dataDirs, modules >>
          ELSE LET found == GetModule(ModuleKey(p), modules)
                   r == DataDirCall(p, TRUE, dataDirs)
               IN  /\ modules' = modules \ found
                   /\ IF a2 /\ r.result # "returned"
                      THEN \* self.data_dir() raises
                           /\ ~a3
                           /\ pres' = PluginCall("uninstall", p, r.result, "",
                                                 << a1, a2 >>, a1, a2, FALSE, FALSE)
                           /\ dataDirs' = r.dirs
                           /\ UNCHANGED << sections, options >>
                      ELSE /\ dataDirs' = IF a2 THEN r.dirs \ {PluginDataDir(p)}
                                                ELSE dataDirs
                           /\ sections' = IF a3 THEN RemoveSection(p, sections)
                                                ELSE sections
                           /\ options' = IF a3 THEN [options EXCEPT ![p] = {}]
                                               ELSE options
                           /\ pres' = PluginCall("uninstall", p, "returned", "",
                                                 << a1, a2, a3 >>, a1, a2, a3, FALSE)
    /\ pOps' = pOps + 1
    /\ UNCHANGED << updateVars, parserVars >>

PluginNext ==
    \/ \E p \in Plugins : Conf(p)
    \/ \E p \in Plugins, o \in Options : ConfSet(p, o)
    \/ \E p \in Plugins, create \in BOOLEAN : DataDir(p, create)
    \/ \E p \in Plugins : Uninstall(p)

PluginSpec == PluginInit /\ [][PluginNext]_vars

\* How often name occurs among the sections.
Count(secs, name) == Cardinality({n \in DOMAIN secs : secs[n] = name})

\* This step is a call of the BasePlugin method op.
IsCall(op) == pOps' = pOps + 1 /\ pres'.op = op

NoSectionTwice == \A p \in Plugins : Count(sections, p) <= 1

\* C12: conf() returns the section of the plugin, after it exactly one
\* section has the plugin's name; if the section was there nothing is
\* added; the options of every section and the sections of the other
\* plugins are as they were.
C12_ConfIsIdempotent ==
    /\ [] NoSectionTwice
    /\ [][ IsCall("conf") =>
             LET p == pres'.plugin
             IN  /\ pres'.result = "returned" /\ pres'.ret = p
                 /\ Count(sections', p) = 1
                 /\ Count(sections, p) = 1 => sections' = sections
                 /\ options' = options
                 /\ RemoveSection(p, sections') = RemoveSection(p, sections)
         ]_vars

\* C12 witness: conf() has just returned a section that holds an option,
\* next to the section of another plugin.
C12_Witness ==
    /\ pres.op = "conf"
    /\ options[pres.plugin] # {}
    /\ Len(sections) = 2

\* C13: data_dir(create) returns the path of the plugin's data directory in
\* every case, creates the directory exactly when create is true and it
\* does not exist, and changes nothing otherwise.
C13_DataDirReturnsPath ==
    [][ IsCall("data_dir") =>
          LET p == pres'.plugin
          IN  /\ pres'.result = "returned"
              /\ pres'.ret = PluginDataDir(p)
              /\ dataDirs' = IF pres'.create
                             THEN dataDirs \cup {PluginDataDir(p)}
                             ELSE dataDirs
              /\ UNCHANGED << sections, options, modules >>
      ]_vars

\* C14: when the first question of uninstall is declined the call ends
\* with KeyboardInterrupt, no other question is asked, and the module, the
\* data directory and the configuration are as they were.
C14_DeclineChangesNothing ==
    [][ (IsCall("uninstall") /\ ~pres'.a1) =>
          /\ pres'.result = "KeyboardInterrupt"
          /\ pres'.asked = 1
          /\ UNCHANGED << sections, options, dataDirs, modules >>
      ]_vars

\* C14 witness: the uninstallation of a plugin that has a module, a data
\* directory and a section holding an option has just been declined.
C14_Witness ==
    /\ pres.op = "uninstall"
    /\ ~pres.a1
    /\ pres.result = "KeyboardInterrupt"
    /\ pres.plugin \in modules
    /\ pres.plugin \in dataDirs
    /\ options[pres.plugin] # {}

\* C15: once the first question is accepted, uninstall returns normally for
\* every pair of answers; the data directory is removed if and only if the
\* second answer is yes and the section if and only if the third is yes; a
\* declined step leaves its resource as it was.
C15_StepsAreIndependent ==
    [][ (IsCall("uninstall") /\ pres'.a1) =>
          LET p == pres'.plugin
          IN  /\ pres'.result = "returned"
              /\ dataDirs' = IF pres'.a2 THEN dataDirs \ {PluginDataDir(p)}
                                         ELSE dataDirs
              /\ sections' = IF pres'.a3 THEN RemoveSection(p, sections)
                                         ELSE sections
              /\ \A q \in Plugins \ {p} : options'[q] = options[q]
              /\ ~pres'.a3 => options' = options
      ]_vars

\* C16 as stated: every stop of a run is forced exactly when the run was
\* started with --force-update; a call of update without a force argument
\* stops gracefully.
C16_ForcedOnlyOnRequest ==
    \A n \in DOMAIN StopCalls :
        StopCalls[n].force = (caller = "run" /\ args.force_update)

\* C16 amended: every stop of a run started by Server.run is forced exactly
\* when --force-update was given; every stop of a run started by calling
\* update without a force argument is forced (the default of force_stop is
\* True); the flag is the same for all worlds of one run.
C16_ForceFollowsCaller ==
    \A n \in DOMAIN StopCalls :
        /\ StopCalls[n].force = force_stop
        /\ caller = "run" => StopCalls[n].force = args.force_update
        /\ caller = "direct" => StopCalls[n].force

\* C16 witness: a finished run started by calling update without a force
\* argument that stopped two worlds, both with force.
C16_Witness ==
    /\ Finished
    /\ caller = "direct"
    /\ Len(StopCalls) >= 2
    /\ \A n \in DOMAIN StopCalls : StopCalls[n].force

\* The calls of the stopping phase of the most recent run.
StopPhase == SelectSeq(CurLog, LAMBDA c : c.op \in {"send_command", "stop"})

\* C17: in the stopping phase every stop call directly follows the
\* send_command call to the same world, each world gets at most one of
\* each, and once a stop has raised WorldStopFailed no further
\* send_command or stop call is made.
C17_NotifyThenStopThenAbort ==
    LET sp == StopPhase
        n_ == Len(sp)
    IN  /\ \A n \in 1..n_ :
              /\ sp[n].op = "stop" =>
                    /\ n > 1
                    /\ sp[n - 1].op = "send_command"
                    /\ sp[n - 1].world = sp[n].world
              /\ (sp[n].op = "send_command" /\ sp[n].res = "ok") =>
                    /\ n < n_
                    /\ sp[n + 1].op = "stop"
              /\ sp[n].res = "WorldStopFailed" => n = n_
              /\ \A m \in 1..(n - 1) :
                    ~(sp[n].op = sp[m].op /\ sp[n].world = sp[m].world)

\* C17 witness: a finished run over three worlds in which the second stop
\* failed: two notifications, two stops, nothing for the third world.
C17_Witness ==
    /\ Finished
    /\ Len(worlds) = 3
    /\ Len(StopPhase) = 4
    /\ StopPhase[4].res = "WorldStopFailed"
    /\ Len(StartCalls) = 3

\* C18: Server.run runs update once for each selected build, in the order
\* of the selection; the calls of a build are made only after the runs of
\* all builds before it have returned; a run that ends with failed stops,
\* a failed update or failed restarts returns, and Server.run goes on to
\* the builds that follow.
C18_OneRunPerBuildInTurn ==
    caller = "run" =>
        /\ Len(returned) <= Len(selected)
        /\ \A n \in DOMAIN returned : returned[n].srv = selected[n]
        /\ InUpdate =>
              /\ k \in DOMAIN selected
              /\ server = selected[k]
              /\ Len(returned) = k - 1
        /\ \A n \in DOMAIN log : log[n].srv = server
        /\ pc = "raised" => \E n \in DOMAIN log : log[n].res = "other"
        /\ (pc = "exit" /\ (args.update \/ args.force_update)) =>
              Len(returned) = Len(selected)

\* C18 witness: Server.run has returned after the runs of two builds, the
\* first of which had a failure.
C18_Witness ==
    /\ caller = "run"
    /\ pc = "exit"
    /\ Len(returned) = 2
    /\ returned[1].failed

\* The last event of MyServer.uninstall.
LastEvent == uninst[Len(uninst)]

\* C19: self.server.uninstall is called only when another build is
\* installed, the user has confirmed, and the replacement is an installed
\* build other than this one; a ServerIsOnlineError is printed and goes no
\* further; the installed builds change only by a call that returned.
C19_UninstallIsGuarded ==
    /\ [] (\A n \in DOMAIN uninst :
              /\ uninst[n].kind = "uninstall" =>
                    /\ uninst[n].names \ {uninst[n].srv} # {}
                    /\ n > 1
                    /\ uninst[n - 1].kind = "ask"
                    /\ uninst[n - 1].res = "yes"
                    /\ uninst[n - 1].srv = uninst[n].srv
                    /\ uninst[n].other \in uninst[n].names
                    /\ uninst[n].other # uninst[n].srv
              /\ uninst[n].res = "ServerIsOnlineError" =>
                    /\ n < Len(uninst)
                    /\ uninst[n + 1].kind = "print_online"
                    /\ uninst[n + 1].srv = uninst[n].srv)
    /\ [] (pc = "raised" => \E n \in DOMAIN log : log[n].res = "other")
    /\ [][ installed' # installed =>
             /\ uninst' # << >>
             /\ uninst'[Len(uninst')].kind = "uninstall"
             /\ uninst'[Len(uninst')].res = "ok"
             /\ installed' = installed \ {uninst'[Len(uninst')].srv}
         ]_vars

\* C19 witness: Server.run has returned after uninstalling the first of
\* two builds with the second as replacement, and after finding no build
\* left to replace the second.
C19_Witness ==
    /\ pc = "exit"
    /\ Len(uninst) >= 3
    /\ uninst[2].kind = "uninstall" /\ uninst[2].res = "ok"
    /\ LastEvent.kind = "print_no_other"
    /\ installed = {LastEvent.srv}

\* C20: when a call of the stopping phase or the update raises an exception
\* that no except clause names, start has been called on every world of the
\* snapshot, after the failing call, when the exception leaves update; and
\* if the exception came from the stopping phase, the update was not called.
C20_FinallyRunsOnAnyException ==
    /\ pc = "raised" =>
          /\ WorldsOf(StartCalls) = worlds
          /\ \E n \in DOMAIN CurLog :
                /\ CurLog[n].res = "other"
                /\ \A w \in Range(worlds) : StartedAfter(w, n)
    /\ \A n \in DOMAIN StopPhase :
          StopPhase[n].res = "other" =>
              /\ n = Len(StopPhase)
              /\ ~ \E u \in DOMAIN CurLog : CurLog[u].op = "update"

\* C20 witness: the exception of the second send_command has left update
\* after start was called on the three worlds.
C20_Witness ==
    /\ pc = "raised"
    /\ Len(worlds) = 3
    /\ Len(StopPhase) = 3
    /\ StopPhase[3].op = "send_command" /\ StopPhase[3].res = "other"
    /\ Len(StartCalls) = 3

\* ------------------------------------------------------- ArgumentParser
\* The state in which the methods of the ArgumentParser wrapper are called:
\* the wrapper has just been constructed, no update is running.
ParserInit ==
    /\ online = [w \in Worlds |-> FALSE]
    /\ args = NoArgs
    /\ selected = << >>
    /\ k = 1
    /\ pc = "parser"
    /\ server = "X"
    /\ worlds = << >>
    /\ i = 1
    /\ force_stop = FALSE
    /\ log = << >>
    /\ printed = << >>
    /\ exc = "none"
    /\ returned = << >>
    /\ envSteps = 0
    /\ snapOnline = [w \in Worlds |-> FALSE]
    /\ caller = "run"
    /\ installed = Servers
    /\ uninst = << >>
    /\ sections = << >>
    /\ options = [p \in Plugins |-> {}]
    /\ dataDirs = {}
    /\ modules = Plugins
    /\ pres = NoCall
    /\ pOps = 0
    /\ ParserFresh

\* ArgumentParser.args(cache), sys.argv holding the command line that is
\* found if parse_args is called.
Args(cache) ==
    /\ pc = "parser"
    /\ qOps < MaxParserOps
    /\ IF MustParse(cached, cache)
       THEN \E line \in CommandLines :
               LET r == ParseArgs(line, parses + 1)
               IN  /\ parses' = parses + 1
                   /\ cached' = IF r.result = "returned" THEN r.ns ELSE cached
                   /\ qres' = ParserCall("args", line, cache, r.result, r.ns.id, TRUE)
       ELSE /\ parses' = parses
            /\ cached' = cached
            /\ qres' = ParserCall("args", cached.line, cache, "returned", cached.id, FALSE)
    /\ qOps' = qOps + 1
    /\ UNCHANGED << parsers, made >>
    /\ UNCHANGED << updateVars, pluginVars >>

\* ArgumentParser.plugin_parser(plugin_name), as BasePlugin.__init__ calls it.
PluginParser(name) ==
    /\ pc = "parser"
    /\ qOps < MaxParserOps
    /\ \E out \in AddParserOutcomes(name, parsers) :
          IF out = "ArgumentError"
          THEN /\ qres' = ParserCall("plugin_parser", name, FALSE, out, NoParser, FALSE)
               /\ UNCHANGED << parsers, made >>
          ELSE /\ made' = made + 1
               /\ parsers' = [parsers EXCEPT ![name] = made + 1]
               /\ qres' = ParserCall("plugin_parser", name, FALSE, "returned",
                                     made + 1, FALSE)
    /\ qOps' = qOps + 1
    /\ UNCHANGED << cached, parses >>
    /\ UNCHANGED << updateVars, pluginVars >>

ParserNext ==
    \/ \E cache \in BOOLEAN : Args(cache)
    \/ \E name \in Plugins : PluginParser(name)

ParserSpec == ParserInit /\ [][ParserNext]_vars

\* This step is a call of the ArgumentParser method op.
IsParserCall(op) == qOps' = qOps + 1 /\ qres'.op = op

\* C21: a call of plugin_parser with a name that has a parser returns that
\* parser and leaves the registered plugin parsers as they are.
C21_SecondCallReturnsSameParser ==
    [][ (IsParserCall("plugin_parser") /\ parsers[qres'.name] # NoParser) =>
            /\ qres'.result = "returned"
            /\ qres'.ret = parsers[qres'.name]
            /\ parsers' = parsers
      ]_vars

\* C22: once a parse has succeeded, a call args(cache=True) returns the
\* cached namespace, the very object, without calling parse_args; a call
\* args(cache=False) calls parse_args once more and, when it returns, the
\* namespace it returns is a new one that has replaced the cached one; and
\* a call with nothing cached parses.
C22_ParsesOnceUnlessAsked ==
    [][ IsParserCall("args") =>
            /\ (qres'.cache /\ cached # NoNamespace) =>
                  /\ parses' = parses
                  /\ cached' = cached
                  /\ ~qres'.parsed
                  /\ qres'.result = "returned"
                  /\ qres'.ret = cached.id
            /\ (~qres'.cache \/ cached = NoNamespace) =>
                  /\ parses' = parses + 1
                  /\ qres'.parsed
                  /\ qres'.result = "returned" =>
                        /\ cached'.id # cached.id
                        /\ cached'.id = qres'.ret
                        /\ cached'.line = qres'.name
                  /\ qres'.result # "returned" => cached' = cached
      ]_vars

\* C22 witness: after a first parse and a second one forced by cache=False
\* on another command line, a cached call has returned the second namespace
\* without parsing.
C22_Witness ==
    /\ pc = "parser"
    /\ parses = 2
    /\ qres.op = "args" /\ qres.cache /\ ~qres.parsed
    /\ qres.ret = 2
    /\ cached.id = 2
    /\ cached.line = "backups --list"

TypeOK ==
    /\ online \in [Worlds -> BOOLEAN]
    /\ pc \in {"run", "direct", "stopping", "downloading", "restarting",
              "uninstall", "raised", "exit", "plugin", "parser"}
    /\ exc \in {"none", "other"}
    /\ k \in 1 .. Len(selected) + 1
====
